---- MODULE Spec2Model ----
(***************************************************************************)
(* Model of the task-manager CLI built in docs/building-tutorial.md:       *)
(* internal/task/task.go (Task, Complete, IsOverdue),                      *)
(* internal/task/storage.go (FileStorage.GetTasks / SaveTasks / AddTask)   *)
(* and the commands cmd/add.go, cmd/list.go, cmd/complete.go.              *)
(*                                                                         *)
(* One command invocation is one process run: it loads the backing file,   *)
(* mutates the slice in memory and rewrites the file.  Under Spec the      *)
(* invocations are sequential, so each action is one whole invocation.     *)
(* SpecStore is the same runs seen through the backing file only, SpecRT   *)
(* the storage layer alone, SpecOverdue Task.IsOverdue alone, and SpecConc *)
(* two invocations running at the same time, step by step.                 *)
(*                                                                         *)
(* Representation.                                                         *)
(*  - a Go string that may hold arbitrary text (the description) is a      *)
(*    sequence of characters; the enumerated strings (status, priority,    *)
(*    error texts) are TLA+ strings;                                       *)
(*  - a *time.Time is a sequence of length <= 1 (<<>> is nil); a time is   *)
(*    the instant it denotes (compared with Time.Equal);                   *)
(*  - the backing file is [exists, data] where data is the sequence of     *)
(*    JSON tokens in the file: the brackets and one token per array        *)
(*    element.  Zero bytes is the empty sequence.                          *)
(*  Reads of an existing file succeed (no permission failures); writes     *)
(*  may fail at every point os.WriteFile can fail.                         *)
(***************************************************************************)
EXTENDS Integers, Sequences, FiniteSets, TLC

VARIABLES
  file,   \* the backing file (tasks.json)
  clock,  \* what time.Now() returns
  out,    \* the last invocation: command, error returned, message printed, and
          \* for list and complete the arguments given and the rows listed
  added,  \* history: the tasks handed to AddTask, while only Adds succeeded
  pure,   \* history: every invocation so far was a successful Add (or a List)
  mem,    \* the collection handed to the most recent SaveTasks call
  hist,   \* history: while every Add and Complete so far succeeded, how many
          \* Adds there were and the ids a Complete marked completed
  procs   \* the invocations running at the same time as separate processes:
          \* for each its position, its command line, the slice it holds in
          \* memory and, once it has exited, what it reported

vars == <<file, clock, out, added, pure, mem, hist, procs>>

(***************************************************************************)
(* Bounds                                                                  *)
(***************************************************************************)
MaxTasks == 2
MaxClock == 1
MaxColl == 2

(***************************************************************************)
(* internal/task/task.go                                                   *)
(***************************************************************************)
StatusPending == "pending"
StatusCompleted == "completed"

PriorityLow == "low"
PriorityMedium == "medium"
PriorityHigh == "high"

NilTime == <<>>
Ptr(t) == <<t>>

\* The zero value of Task (what json.Unmarshal starts every element from).
ZeroTask ==
  [ID |-> 0, Description |-> <<>>, Priority |-> "", Status |-> "",
   DueDate |-> NilTime, CreatedAt |-> 0, CompletedAt |-> NilTime,
   Tags |-> <<>>]

IsOverdueIgnoresStatus(t, now) ==
  IF t.DueDate = NilTime THEN FALSE ELSE now > t.DueDate[1]

\* func (t *Task) IsOverdue() bool, with time.Now() = now
IsOverdue(t, now) ==
  IF t.DueDate = NilTime \/ t.Status = StatusCompleted
  THEN FALSE
  ELSE now > t.DueDate[1]

CompleteNoStamp(t, now) == [t EXCEPT !.Status = StatusCompleted]

CompleteResetsCreated(t, now) ==
  [t EXCEPT !.Status = StatusCompleted, !.CompletedAt = Ptr(now),
            !.CreatedAt = now]

CompleteClearsDue(t, now) ==
  [t EXCEPT !.Status = StatusCompleted, !.CompletedAt = Ptr(now),
            !.DueDate = NilTime]

\* func (t *Task) Complete(), with time.Now() = now
Complete(t, now) ==
  [t EXCEPT !.Status = StatusCompleted, !.CompletedAt = Ptr(now)]

(***************************************************************************)
(* encoding/json as used by storage.go, for the struct tags of Task        *)
(* (building-tutorial.md 162-171).  A JSON object is a function from its   *)
(* keys to the encoded values; `omitempty` keys are left out.              *)
(***************************************************************************)
LBracket == [tok |-> "["]
RBracket == [tok |-> "]"]
NullTok == [tok |-> "null"]
JunkTok == [tok |-> "junk"]
ObjTok(o) == [tok |-> "object", val |-> o]

\* A JSON string literal: quote and backslash are escaped.
RECURSIVE Escape(_)
Escape(s) ==
  IF s = <<>> THEN <<>>
  ELSE (IF Head(s) \in {"\"", "\\"} THEN <<"\\", Head(s)>> ELSE <<Head(s)>>)
       \o Escape(Tail(s))

RECURSIVE Unescape(_)
Unescape(s) ==
  IF s = <<>> THEN <<>>
  ELSE IF Head(s) = "\\" /\ Len(s) >= 2
       THEN <<s[2]>> \o Unescape(Tail(Tail(s)))
       ELSE <<Head(s)>> \o Unescape(Tail(s))

\* time.Time.MarshalJSON / UnmarshalJSON: an RFC 3339 string of the instant.
FormatTime(t) == [rfc3339 |-> t]
ParseTime(j) == j.rfc3339

\* json.Marshal of one Task
MarshalTask(t) ==
  ("id" :> t.ID) @@ ("description" :> Escape(t.Description))
  @@ ("priority" :> t.Priority) @@ ("status" :> t.Status)
  @@ ("created_at" :> FormatTime(t.CreatedAt))
  @@ (IF t.DueDate = NilTime THEN <<>>
      ELSE ("due_date" :> FormatTime(t.DueDate[1])))
  @@ (IF t.CompletedAt = NilTime THEN <<>>
      ELSE ("completed_at" :> FormatTime(t.CompletedAt[1])))
  @@ (IF Len(t.Tags) = 0 THEN <<>> ELSE ("tags" :> t.Tags))

UnmarshalTaskWrongTag(o) ==
  [ID |-> IF "id" \in DOMAIN o THEN o["id"] ELSE ZeroTask.ID,
   Description |-> IF "description" \in DOMAIN o
                   THEN Unescape(o["description"]) ELSE ZeroTask.Description,
   Priority |-> IF "priority" \in DOMAIN o THEN o["priority"]
                ELSE ZeroTask.Priority,
   Status |-> IF "status" \in DOMAIN o THEN o["status"] ELSE ZeroTask.Status,
   DueDate |-> IF "dueDate" \in DOMAIN o
               THEN Ptr(ParseTime(o["dueDate"])) ELSE NilTime,
   CreatedAt |-> IF "created_at" \in DOMAIN o
                 THEN ParseTime(o["created_at"]) ELSE ZeroTask.CreatedAt,
   CompletedAt |-> IF "completed_at" \in DOMAIN o
                   THEN Ptr(ParseTime(o["completed_at"])) ELSE NilTime,
   Tags |-> IF "tags" \in DOMAIN o THEN o["tags"] ELSE ZeroTask.Tags]

\* json.Unmarshal of one array element into a zero Task: a key that is
\* absent leaves the field at its zero value.
UnmarshalTask(o) ==
  [ID |-> IF "id" \in DOMAIN o THEN o["id"] ELSE ZeroTask.ID,
   Description |-> IF "description" \in DOMAIN o
                   THEN Unescape(o["description"]) ELSE ZeroTask.Description,
   Priority |-> IF "priority" \in DOMAIN o THEN o["priority"]
                ELSE ZeroTask.Priority,
   Status |-> IF "status" \in DOMAIN o THEN o["status"] ELSE ZeroTask.Status,
   DueDate |-> IF "due_date" \in DOMAIN o
               THEN Ptr(ParseTime(o["due_date"])) ELSE NilTime,
   CreatedAt |-> IF "created_at" \in DOMAIN o
                 THEN ParseTime(o["created_at"]) ELSE ZeroTask.CreatedAt,
   CompletedAt |-> IF "completed_at" \in DOMAIN o
                   THEN Ptr(ParseTime(o["completed_at"])) ELSE NilTime,
   Tags |-> IF "tags" \in DOMAIN o THEN o["tags"] ELSE ZeroTask.Tags]

\* json.MarshalIndent(tasks, "", "  "): a nil slice encodes as null.
MarshalIndent(tasks, isNil) ==
  IF isNil THEN <<NullTok>>
  ELSE <<LBracket>> \o [i \in 1..Len(tasks) |-> ObjTok(MarshalTask(tasks[i]))]
       \o <<RBracket>>

\* json.Unmarshal(data, &tasks): the whole input is validated first; null
\* leaves the slice nil, a null element leaves the element at its zero value.
Unmarshal(data) ==
  IF data = <<NullTok>> THEN [err |-> FALSE, tasks |-> <<>>]
  ELSE IF /\ Len(data) >= 2
          /\ data[1] = LBracket
          /\ data[Len(data)] = RBracket
          /\ \A i \in 2..(Len(data) - 1) : data[i].tok \in {"object", "null"}
       THEN [err |-> FALSE,
             tasks |-> [i \in 1..(Len(data) - 2) |->
                          IF data[i + 1].tok = "object"
                          THEN UnmarshalTask(data[i + 1].val)
                          ELSE ZeroTask]]
       ELSE [err |-> TRUE, tasks |-> <<>>]

(***************************************************************************)
(* internal/task/storage.go                                                *)
(***************************************************************************)
NoFile == [exists |-> FALSE, data |-> <<>>]
FileOf(data) == [exists |-> TRUE, data |-> data]

\* An error value is the chain of messages built by fmt.Errorf("...: %w");
\* the empty chain is a nil error.
ErrNone == <<>>
Wrap(msg, err) == <<msg>> \o err
JSONError == <<"encoding/json">>
OSError == <<"os">>
Is(err, msg) == \E i \in 1..Len(err) : err[i] = msg

ErrParse == "failed to parse tasks file"
ErrMkdir == "failed to create directory"
ErrWrite == "failed to write tasks file"
ErrLoadExisting == "failed to load existing tasks"

GetTasksNoEmptyCheck(f) ==
  IF ~f.exists THEN [err |-> ErrNone, tasks |-> <<>>]
  ELSE LET u == Unmarshal(f.data)
       IN IF u.err THEN [err |-> Wrap(ErrParse, JSONError), tasks |-> <<>>]
          ELSE [err |-> ErrNone, tasks |-> u.tasks]

GetTasksSwallow(f) ==
  IF ~f.exists \/ Len(f.data) = 0 THEN [err |-> ErrNone, tasks |-> <<>>]
  ELSE [err |-> ErrNone, tasks |-> Unmarshal(f.data).tasks]

\* func (fs *FileStorage) GetTasks() ([]Task, error)
GetTasks(f) ==
  IF ~f.exists THEN [err |-> ErrNone, tasks |-> <<>>]
  ELSE IF Len(f.data) = 0 THEN [err |-> ErrNone, tasks |-> <<>>]
  ELSE LET u == Unmarshal(f.data)
       IN IF u.err THEN [err |-> Wrap(ErrParse, JSONError), tasks |-> <<>>]
          ELSE [err |-> ErrNone, tasks |-> u.tasks]

\* Where a write of data can stop: before the first token, after it, or
\* after the last one.  (A write that stops anywhere in between leaves, like
\* the one-token file, a file that json.Unmarshal rejects.)
CutPoints(data) == {0, 1, Len(data)}

\* os.WriteFile(name, data, 0644): open with O_TRUNC, write, close.  The
\* open may fail (file untouched); after the truncation the write may stop
\* at a cut point; a failing close reports an error although everything was
\* written.
WriteFile(f, data) ==
  {[err |-> Wrap(ErrWrite, OSError), file |-> f]}
  \cup {[err |-> Wrap(ErrWrite, OSError), file |-> FileOf(SubSeq(data, 1, k))] :
          k \in CutPoints(data)}
  \cup {[err |-> ErrNone, file |-> FileOf(data)]}

\* func (fs *FileStorage) SaveTasks(tasks []Task) error: the set of
\* possible outcomes [err, file].
SaveTasks(f, tasks, isNil) ==
  {[err |-> Wrap(ErrMkdir, OSError), file |-> f]}
  \cup WriteFile(f, MarshalIndent(tasks, isNil))

AddTaskKeepID(f, task) ==
  LET g == GetTasks(f)
  IN IF g.err # ErrNone
     THEN {[err |-> Wrap(ErrLoadExisting, g.err), file |-> f]}
     ELSE SaveTasks(f, Append(g.tasks, task), FALSE)

AddTaskOverCorrupt(f, task) ==
  LET g == GetTasks(f)
  IN SaveTasks(f, Append(g.tasks, [task EXCEPT !.ID = Len(g.tasks) + 1]),
               FALSE)

\* func (fs *FileStorage) AddTask(task Task) error
AddTask(f, task) ==
  LET g == GetTasks(f)
  IN IF g.err # ErrNone
     THEN {[err |-> Wrap(ErrLoadExisting, g.err), file |-> f]}
     ELSE SaveTasks(f, Append(g.tasks, [task EXCEPT !.ID = Len(g.tasks) + 1]),
                    FALSE)

appendTaskOnly(tasks, task) == <<[task EXCEPT !.ID = 1]>>

appendTaskKeepID(tasks, task) == Append(tasks, task)

\* AddTask between its load and its save: task.ID = len(tasks) + 1;
\* tasks = append(tasks, task)
appendTask(tasks, task) == Append(tasks, [task EXCEPT !.ID = Len(tasks) + 1])

\* os.WriteFile, first half: the open with O_CREATE|O_TRUNC leaves a file of
\* zero bytes.
OpenTrunc(f) == FileOf(<<>>)

\* os.WriteFile, second half: the write puts data at offset 0 of what the
\* file holds then.  After the process's own open that is nothing, unless
\* another process has written in between: then data replaces the first
\* bytes, and when the other content was longer (the encoded lengths
\* decide) its last bytes stay behind the closing bracket.
WriteAt0(old, data) ==
  IF Len(old) = 0 THEN {data} ELSE {data, data \o <<JunkTok>>}

(***************************************************************************)
(* Command-line inputs                                                     *)
(***************************************************************************)
\* Descriptions given to `add` (args[0], or the interactive answer).
Descriptions == {<<>>, <<"a">>}

\* --priority: absent (the flag's default applies) or given.
PriorityFlags == {<<>>, <<"high">>, <<"urgent">>}

\* --due values: absent, two YYYY-MM-DD dates, and values time.Parse
\* rejects: text, a day the month does not have, another layout.
DueFlags ==
  {"", "2006-01-02", "2006-01-03", "tomorrow", "2006-02-30", "01/02/2006"}

ParseDateLenient(s) ==
  IF s = "2006-01-03" THEN [err |-> FALSE, t |-> 2]
  ELSE [err |-> FALSE, t |-> 1]

\* time.Parse("2006-01-02", s): the dates that parse, with their instant.
ParseDate(s) ==
  IF s = "2006-01-02" THEN [err |-> FALSE, t |-> 1]
  ELSE IF s = "2006-01-03" THEN [err |-> FALSE, t |-> 2]
  ELSE [err |-> TRUE, t |-> 0]

\* The command lines `add` is run with.
AddArgs ==
  {[description |-> <<>>, priority |-> <<>>, due |-> ""],
   [description |-> <<"a">>, priority |-> <<>>, due |-> ""],
   [description |-> <<"a">>, priority |-> <<"urgent">>, due |-> "2006-01-02"],
   [description |-> <<"a">>, priority |-> <<>>, due |-> "tomorrow"]}

\* strconv.Atoi(args[0]) of the arguments given to `complete`.
IdArgs ==
  {[err |-> TRUE, n |-> 0]}
  \cup {[err |-> FALSE, n |-> i] : i \in 0..(MaxTasks + 1)}

\* The integer arguments of `complete` the properties range over.
AnyIdArgs == {[err |-> FALSE, n |-> i] : i \in (0 - 2)..(MaxTasks + 3)}

StatusFilters == {"", StatusPending, StatusCompleted}
PriorityFilters == {"", PriorityMedium}

\* The ID field of the Task a caller of Storage.AddTask passes.
CallerIDs == {0, 7}

(***************************************************************************)
(* cmd/add.go                                                              *)
(***************************************************************************)
DefaultPriority == PriorityMedium

ErrEmptyDescription == "task description cannot be empty"
ErrDueDate == "invalid due date format"
ErrAdd == "failed to add task"
MsgAdded == "Task added successfully!"

NoArg == [none |-> TRUE]
Report(cmd, arg, err, msg, listed) ==
  [cmd |-> cmd, arg |-> arg, err |-> err, msg |-> msg, listed |-> listed,
   rows |-> <<>>]

NewTaskNoDue(desc, priority, due, now) ==
  [ZeroTask EXCEPT !.Description = desc, !.Priority = priority,
                   !.CreatedAt = now, !.Status = StatusPending]

\* The task literal built by addTask (ID is left at its zero value).
NewTask(desc, priority, due, now) ==
  [ZeroTask EXCEPT !.Description = desc, !.Priority = priority,
                   !.DueDate = due, !.CreatedAt = now,
                   !.Status = StatusPending]

addTaskNoValidation(f, desc, pflag, dflag, now) ==
  LET priority == IF pflag = <<>> THEN DefaultPriority ELSE pflag[1]
      due == IF dflag = "" THEN NilTime ELSE Ptr(ParseDate(dflag).t)
      newTask == NewTask(desc, priority, due, now)
  IN {[file |-> r.file,
       out |-> IF r.err # ErrNone
               THEN Report("add", NoArg, Wrap(ErrAdd, r.err), "", <<>>)
               ELSE Report("add", NoArg, ErrNone, MsgAdded, <<>>),
       task |-> newTask] : r \in AddTask(f, newTask)}

\* func addTask(cmd, args): the possible results [file, out] of one run of
\* `add`; task is the literal handed to AddTask.
addTask(f, desc, pflag, dflag, now) ==
  LET priority == IF pflag = <<>> THEN DefaultPriority ELSE pflag[1]
      fail(e) == {[file |-> f, out |-> Report("add", NoArg, e, "", <<>>),
                   task |-> ZeroTask]}
  IN IF desc = <<>> THEN fail(<<ErrEmptyDescription>>)
     ELSE IF dflag # "" /\ ParseDate(dflag).err THEN fail(<<ErrDueDate>>)
     ELSE LET due == IF dflag = "" THEN NilTime ELSE Ptr(ParseDate(dflag).t)
              newTask == NewTask(desc, priority, due, now)
          IN {[file |-> r.file,
               out |-> IF r.err # ErrNone
                       THEN Report("add", NoArg, Wrap(ErrAdd, r.err), "", <<>>)
                       ELSE Report("add", NoArg, ErrNone, MsgAdded, <<>>),
               task |-> newTask] : r \in AddTask(f, newTask)}

(***************************************************************************)
(* cmd/list.go                                                             *)
(***************************************************************************)
ErrLoad == "failed to load tasks"
MsgNoTasks == "No tasks found."
MsgNoMatch == "No tasks match the specified filters."
MsgTable == "Your Tasks:"

filterTasksNoDefault(tasks, status, priority, showAll) ==
  LET keep(t) ==
        /\ ~(status # "" /\ t.Status # status)
        /\ ~(priority # "" /\ t.Priority # priority)
  IN SelectSeq(tasks, keep)

filterTasksAnyStatus(tasks, status, priority, showAll) ==
  LET keep(t) ==
        /\ ~(~showAll /\ status = "" /\ t.Status = StatusCompleted)
        /\ ~(priority # "" /\ t.Priority # priority)
  IN SelectSeq(tasks, keep)

\* func filterTasks(tasks, status, priority, showAll)
filterTasks(tasks, status, priority, showAll) ==
  LET keep(t) ==
        /\ ~(status # "" /\ t.Status # status)
        /\ ~(~showAll /\ status = "" /\ t.Status = StatusCompleted)
        /\ ~(priority # "" /\ t.Priority # priority)
  IN SelectSeq(tasks, keep)

\* func formatPriority(priority): the text with its colour and icon
formatPriority(priority) ==
  IF priority = "high" THEN <<"red", priority>>
  ELSE IF priority = "medium" THEN <<"yellow", priority>>
  ELSE IF priority = "low" THEN <<"green", priority>>
  ELSE <<priority>>

\* func formatStatus(status)
formatStatus(status) ==
  IF status = "completed" THEN <<"green", "done">>
  ELSE IF status = "pending" THEN <<"yellow", "pending">>
  ELSE <<status>>

\* func truncateString(str, maxLen)
truncateString(str, maxLen) ==
  IF Len(str) <= maxLen THEN str
  ELSE SubSeq(str, 1, maxLen - 3) \o <<".", ".", ".">>

\* t.CreatedAt.Format("2006-01-02"): the calendar day of the instant.  The
\* instants of the model are whole days (see ParseDate).
FormatDate(t) == [ymd |-> t]

\* func displayTasks(tasks): the rows of the table printed.  The ID column
\* is strconv.Itoa(i + 1), i being the 0-based index in the slice given.
displayTasks(tasks) ==
  [i \in 1..Len(tasks) |->
     [id |-> i,
      description |-> truncateString(tasks[i].Description, 30),
      priority |-> formatPriority(tasks[i].Priority),
      status |-> formatStatus(tasks[i].Status),
      created |-> FormatDate(tasks[i].CreatedAt)]]

\* func listTasks(cmd, args)
listTasks(f, status, priority, showAll) ==
  LET arg == [status |-> status, priority |-> priority, all |-> showAll]
      g == GetTasks(f)
  IN IF g.err # ErrNone THEN Report("list", arg, Wrap(ErrLoad, g.err), "", <<>>)
     ELSE IF Len(g.tasks) = 0 THEN Report("list", arg, ErrNone, MsgNoTasks, <<>>)
     ELSE LET filteredTasks == filterTasks(g.tasks, status, priority, showAll)
          IN IF Len(filteredTasks) = 0
             THEN Report("list", arg, ErrNone, MsgNoMatch, <<>>)
             ELSE [Report("list", arg, ErrNone, MsgTable, filteredTasks)
                     EXCEPT !.rows = displayTasks(filteredTasks)]

(***************************************************************************)
(* cmd/complete.go                                                         *)
(***************************************************************************)
ErrInvalidID == "invalid task ID"
ErrNotFound == "task ID not found"
ErrSaveCompletion == "failed to save task completion"
ErrPanic == "panic: runtime error: index out of range"
MsgAlready == "Task is already completed!"
MsgCompleted == "Task completed successfully!"

OutOfRangeUpperOnly(taskID, n) == taskID > n

\* taskID < 1 || taskID > len(tasks)
OutOfRange(taskID, n) == taskID < 1 \/ taskID > n

AlwaysPending(t) == FALSE

\* targetTask.Status == task.StatusCompleted
AlreadyCompleted(t) == t.Status = StatusCompleted

\* func completeTask(cmd, args): the possible results [file, out] of one run
\* of `complete`.  tasks[taskID-1] panics when the index is out of range.
completeTask(f, a, now) ==
  LET stay(e, m) == {[file |-> f, out |-> Report("complete", a, e, m, <<>>)]}
      g == GetTasks(f)
  IN IF a.err THEN stay(<<ErrInvalidID>>, "")
     ELSE IF g.err # ErrNone THEN stay(Wrap(ErrLoad, g.err), "")
     ELSE IF OutOfRange(a.n, Len(g.tasks)) THEN stay(<<ErrNotFound>>, "")
     ELSE IF a.n \notin 1..Len(g.tasks) THEN stay(<<ErrPanic>>, "")
     ELSE IF AlreadyCompleted(g.tasks[a.n]) THEN stay(ErrNone, MsgAlready)
     ELSE LET tasks == [g.tasks EXCEPT ![a.n] = Complete(@, now)]
          IN {[file |-> r.file,
               out |-> IF r.err # ErrNone
                       THEN Report("complete", a,
                                   Wrap(ErrSaveCompletion, r.err), "", <<>>)
                       ELSE Report("complete", a, ErrNone, MsgCompleted, <<>>)]
              : r \in SaveTasks(f, tasks, FALSE)}

(***************************************************************************)
(* main.go                                                                 *)
(***************************************************************************)
ExitStatusZero(err) == 0

\* func main: the process's exit status, err being what cmd.Execute()
\* returned (the error of the command's RunE).
ExitStatus(err) == IF err # ErrNone THEN 1 ELSE 0

(***************************************************************************)
(* The sequential system: one invocation at a time.                        *)
(***************************************************************************)
StoredTasks == GetTasks(file).tasks

NoReport == Report("none", NoArg, ErrNone, "", <<>>)
NoMem == [tasks |-> <<>>, isNil |-> FALSE, durable |-> FALSE]
NoHist == [ok |-> FALSE, adds |-> 0, done |-> {}]

\* The processes of the concurrent runs; there are none in the sequential
\* runs.
Procs == {1, 2}
Idle ==
  [pc |-> "idle", cmd |-> "", id |-> 0, seen |-> <<>>, tasks |-> <<>>,
   racing |-> {}, out |-> NoReport]
NoProcs == [p \in Procs |-> Idle]

\* The file before the first invocation: absent, zero bytes, or left by
\* someone else with `null` or with something that is not JSON.
Init ==
  /\ file \in {NoFile, FileOf(<<>>), FileOf(<<NullTok>>), FileOf(<<JunkTok>>)}
  /\ clock = 0
  /\ out = NoReport
  /\ added = <<>>
  /\ pure = (file \in {NoFile, FileOf(<<>>)})
  /\ mem = NoMem
  /\ hist = [NoHist EXCEPT !.ok = (GetTasks(file).err = ErrNone)]
  /\ procs = NoProcs

\* Time passes between invocations.
Tick ==
  /\ clock < MaxClock
  /\ clock' = clock + 1
  /\ UNCHANGED <<file, out, added, pure, mem, hist, procs>>

\* task-manager add <description> [--priority p] [--due d]
AddCmd ==
  \E a \in AddArgs :
    /\ Len(StoredTasks) < MaxTasks
    /\ \E r \in addTask(file, a.description, a.priority, a.due, clock) :
         /\ file' = r.file
         /\ out' = r.out
         /\ pure' = (pure /\ r.out.err = ErrNone)
         /\ added' = IF pure' THEN Append(added, r.task) ELSE <<>>
         /\ hist' = IF hist.ok /\ r.out.err = ErrNone
                    THEN [hist EXCEPT !.adds = @ + 1]
                    ELSE NoHist
    /\ UNCHANGED <<clock, mem, procs>>

\* A direct call of Storage.AddTask with a Task whose ID the caller set.
StorageAddTask ==
  \E id \in CallerIDs, desc \in Descriptions \ {<<>>} :
    LET task == [NewTask(desc, DefaultPriority, NilTime, clock)
                   EXCEPT !.ID = id]
    IN /\ Len(StoredTasks) < MaxTasks
       /\ \E r \in AddTask(file, task) :
            /\ file' = r.file
            /\ out' = Report("AddTask", NoArg, r.err, "", <<>>)
            /\ pure' = (pure /\ r.err = ErrNone)
            /\ added' = IF pure' THEN Append(added, task) ELSE <<>>
            /\ hist' = IF hist.ok /\ r.err = ErrNone
                       THEN [hist EXCEPT !.adds = @ + 1]
                       ELSE NoHist
       /\ UNCHANGED <<clock, mem, procs>>

\* task-manager list [--status s] [--priority p] [--all]
ListCmd ==
  \E status \in StatusFilters, priority \in PriorityFilters,
     showAll \in BOOLEAN :
    /\ out' = listTasks(file, status, priority, showAll)
    /\ UNCHANGED <<file, clock, added, pure, mem, hist, procs>>

\* task-manager complete <task-id>
CompleteCmd ==
  \E a \in IdArgs :
    /\ \E r \in completeTask(file, a, clock) :
         /\ file' = r.file
         /\ out' = r.out
         /\ hist' = IF hist.ok /\ r.out.err = ErrNone
                    THEN IF r.out.msg = MsgCompleted
                         THEN [hist EXCEPT !.done = @ \cup {a.n}]
                         ELSE hist
                    ELSE NoHist
    /\ pure' = FALSE
    /\ added' = <<>>
    /\ UNCHANGED <<clock, mem, procs>>

Next == Tick \/ AddCmd \/ StorageAddTask \/ ListCmd \/ CompleteCmd

Spec == Init /\ [][Next]_vars

(***************************************************************************)
(* The storage layer alone: a caller holding a collection in memory saves  *)
(* it with SaveTasks and reads it back with GetTasks.                      *)
(***************************************************************************)
\* The tasks a collection is drawn from: every field takes two values.
TasksRT ==
  {[ID |-> IF tags = <<>> THEN 1 ELSE 2,
    Description |-> desc,
    Priority |-> IF due = NilTime THEN PriorityMedium ELSE PriorityHigh,
    Status |-> IF done = NilTime THEN StatusPending ELSE StatusCompleted,
    DueDate |-> due,
    CreatedAt |-> IF done = NilTime THEN 1 ELSE 0,
    CompletedAt |-> done,
    Tags |-> tags] :
     desc \in {<<"a">>, <<"\"", "\\">>}, due \in {NilTime, Ptr(1)},
     done \in {NilTime, Ptr(0)}, tags \in {<<>>, <<"x">>}}

RECURSIVE SeqsUpTo(_, _)
SeqsUpTo(S, n) ==
  IF n = 0 THEN {<<>>}
  ELSE LET shorter == SeqsUpTo(S, n - 1)
       IN shorter \cup {Append(c, t) : c \in shorter, t \in S}

CollectionsRT == SeqsUpTo(TasksRT, MaxColl)

InitRT ==
  /\ file = NoFile
  /\ clock = 0
  /\ out = NoReport
  /\ added = <<>>
  /\ pure = FALSE
  /\ mem \in {[tasks |-> c, isNil |-> n, durable |-> FALSE] :
                c \in CollectionsRT, n \in {FALSE}}
             \cup {[tasks |-> <<>>, isNil |-> TRUE, durable |-> FALSE]}
  /\ hist = NoHist
  /\ procs = NoProcs

\* storage.SaveTasks(mem)
SaveRT ==
  /\ \E r \in SaveTasks(file, mem.tasks, mem.isNil) :
       /\ file' = r.file
       /\ mem' = [mem EXCEPT !.durable = (r.err = ErrNone)]
       /\ out' = Report("SaveTasks", NoArg, r.err, "", <<>>)
  /\ UNCHANGED <<clock, added, pure, hist, procs>>

\* storage.GetTasks()
LoadRT ==
  /\ LET g == GetTasks(file)
     IN out' = Report("GetTasks", NoArg, g.err, "", g.tasks)
  /\ UNCHANGED <<file, clock, added, pure, mem, hist, procs>>

NextRT == SaveRT \/ LoadRT

SpecRT == InitRT /\ [][NextRT]_vars

(***************************************************************************)
(* The store alone: the same invocations of add and complete, one at a     *)
(* time, observed through the backing file; of an invocation only the      *)
(* command, the error returned and the message printed are recorded, and   *)
(* no history is kept.                                                     *)
(***************************************************************************)
InitStore ==
  /\ file \in {NoFile, FileOf(<<>>), FileOf(<<NullTok>>), FileOf(<<JunkTok>>)}
  /\ clock = 0
  /\ out = NoReport
  /\ added = <<>>
  /\ pure = FALSE
  /\ mem = NoMem
  /\ hist = NoHist
  /\ procs = NoProcs

\* task-manager add <description> [--priority p] [--due d]
AddStore ==
  \E a \in AddArgs :
    /\ Len(StoredTasks) < MaxTasks
    /\ \E r \in addTask(file, a.description, a.priority, a.due, clock) :
         /\ file' = r.file
         /\ out' = r.out
    /\ UNCHANGED <<clock, added, pure, mem, hist, procs>>

\* task-manager complete <task-id>
CompleteStore ==
  \E a \in IdArgs :
    /\ \E r \in completeTask(file, a, clock) :
         /\ file' = r.file
         /\ out' = [r.out EXCEPT !.arg = NoArg]
    /\ UNCHANGED <<clock, added, pure, mem, hist, procs>>

NextStore == Tick \/ AddStore \/ CompleteStore

SpecStore == InitStore /\ [][NextStore]_vars

(***************************************************************************)
(* Task.IsOverdue alone: a caller holds one task (as TestTaskIsOverdue     *)
(* does) and asks, as time passes, whether it is overdue.                  *)
(***************************************************************************)
\* The tasks asked about: with and without a due date (at every instant of
\* the clock); pending, completed, and with Status left at its zero value.
TasksOverdue ==
  {[ZeroTask EXCEPT !.Description = desc, !.Priority = priority,
                    !.Status = status, !.DueDate = due,
                    !.CompletedAt = IF status = StatusCompleted
                                    THEN Ptr(0) ELSE NilTime] :
     desc \in {<<"a">>, <<"\"">>},
     priority \in {PriorityLow, PriorityMedium, PriorityHigh},
     status \in {"", StatusPending, StatusCompleted},
     due \in {NilTime} \cup {Ptr(i) : i \in 0..MaxClock}}

InitOverdue ==
  /\ file = NoFile
  /\ clock = 0
  /\ out = NoReport
  /\ added = <<>>
  /\ pure = FALSE
  /\ mem \in {[tasks |-> <<t>>, isNil |-> FALSE, durable |-> FALSE] :
                t \in TasksOverdue}
  /\ hist = NoHist
  /\ procs = NoProcs

\* testTask.IsOverdue(): the answer is recorded with the time of the call.
CallIsOverdue ==
  /\ out' = Report("IsOverdue",
                   [now |-> clock, overdue |-> IsOverdue(mem.tasks[1], clock)],
                   ErrNone, "", <<>>)
  /\ UNCHANGED <<file, clock, added, pure, mem, hist, procs>>

NextOverdue == Tick \/ CallIsOverdue

SpecOverdue == InitOverdue /\ [][NextOverdue]_vars

(***************************************************************************)
(* Two invocations at the same time, as separate processes on the same     *)
(* tasks.json.  The code takes no lock, so the steps of one process (load  *)
(* the file; open it for writing, which truncates it; write) interleave    *)
(* with those of the other.  The disk does not fail here, and the clock    *)
(* stands still.                                                           *)
(***************************************************************************)
\* The description process p gives to add (the tasks stored before are
\* all "a").
ConcDescriptions == <<(<<"b">>), (<<"c">>)>>

\* The command lines a process is started with.
ConcCommands ==
  {[cmd |-> "add", id |-> 0], [cmd |-> "list", id |-> 0]}
  \cup {[cmd |-> "complete", id |-> i] : i \in 1..MaxTasks}

\* tasks.json after n runs of `add a`.
RECURSIVE StoreOf(_)
StoreOf(n) ==
  IF n = 0 THEN NoFile
  ELSE (CHOOSE r \in AddTask(StoreOf(n - 1),
                             NewTask(<<"a">>, DefaultPriority, NilTime, 0)) :
          r.err = ErrNone).file

InitConc ==
  /\ file \in {StoreOf(n) : n \in 0..MaxTasks}
  /\ clock = 0
  /\ out = NoReport
  /\ added = <<>>
  /\ pure = FALSE
  /\ mem = NoMem
  /\ hist = NoHist
  /\ procs = NoProcs

\* Process p starts and runs up to the end of its load: list reads the file
\* and exits; add and complete exit when they fail or have nothing to
\* write, and otherwise hold the slice they are going to save.  racing
\* (history) is the set of processes that were between their load and the
\* end of their write at that moment, seen the slice GetTasks returned.
LoadConc(p) ==
  /\ procs[p].pc = "idle"
  /\ \E c \in ConcCommands :
       LET g == GetTasks(file)
           a == [err |-> FALSE, n |-> c.id]
           now == clock
           racing == {q \in Procs \ {p} : procs[q].pc \in {"loaded", "opened"}}
           exit(o) == [pc |-> "done", cmd |-> c.cmd, id |-> c.id,
                       seen |-> g.tasks, tasks |-> <<>>, racing |-> racing,
                       out |-> o]
           hold(tasks) == [pc |-> "loaded", cmd |-> c.cmd, id |-> c.id,
                           seen |-> g.tasks, tasks |-> tasks,
                           racing |-> racing, out |-> NoReport]
       IN procs' =
            [procs EXCEPT ![p] =
               IF c.cmd = "list" THEN exit(listTasks(file, "", "", TRUE))
               ELSE IF c.cmd = "add"
               THEN IF g.err # ErrNone
                    THEN exit(Report("add", NoArg,
                                     Wrap(ErrAdd, Wrap(ErrLoadExisting, g.err)),
                                     "", <<>>))
                    ELSE hold(appendTask(g.tasks,
                                         NewTask(ConcDescriptions[p],
                                                 DefaultPriority, NilTime, now)))
               ELSE IF g.err # ErrNone
               THEN exit(Report("complete", a, Wrap(ErrLoad, g.err), "", <<>>))
               ELSE IF OutOfRange(a.n, Len(g.tasks))
               THEN exit(Report("complete", a, <<ErrNotFound>>, "", <<>>))
               ELSE IF AlreadyCompleted(g.tasks[a.n])
               THEN exit(Report("complete", a, ErrNone, MsgAlready, <<>>))
               ELSE hold([g.tasks EXCEPT ![a.n] = Complete(@, now)])]
  /\ UNCHANGED <<file, clock, out, added, pure, mem, hist>>

\* SaveTasks, up to the open inside os.WriteFile.
OpenConc(p) ==
  /\ procs[p].pc = "loaded"
  /\ file' = OpenTrunc(file)
  /\ procs' = [procs EXCEPT ![p].pc = "opened"]
  /\ UNCHANGED <<clock, out, added, pure, mem, hist>>

\* The write inside os.WriteFile, the success message and the exit.
WriteConc(p) ==
  /\ procs[p].pc = "opened"
  /\ \E data \in WriteAt0(file.data, MarshalIndent(procs[p].tasks, FALSE)) :
       file' = FileOf(data)
  /\ procs' =
       [procs EXCEPT
          ![p].pc = "done",
          ![p].out =
            IF procs[p].cmd = "add"
            THEN Report("add", NoArg, ErrNone, MsgAdded, <<>>)
            ELSE Report("complete", [err |-> FALSE, n |-> procs[p].id],
                        ErrNone, MsgCompleted, <<>>)]
  /\ UNCHANGED <<clock, out, added, pure, mem, hist>>

NextConc == \E p \in Procs : LoadConc(p) \/ OpenConc(p) \/ WriteConc(p)

SpecConc == InitConc /\ [][NextConc]_vars

(***************************************************************************)
(* Properties                                                              *)
(***************************************************************************)
Loadable == GetTasks(file).err = ErrNone
HasID(id) == \E k \in 1..Len(StoredTasks) : StoredTasks[k].ID = id

\* C1: after any sequence of successful Adds on a missing or empty store,
\* List with no filter returns exactly the tasks handed in, in that order,
\* and the k-th has ID k whatever ID the caller's Task carried.
C1_AddsListedInOrderWithIds ==
  pure =>
    LET l == listTasks(file, "", "", FALSE)
    IN /\ l.err = ErrNone
       /\ l.listed = [k \in 1..Len(added) |-> [added[k] EXCEPT !.ID = k]]

C1_Witness ==
  /\ pure
  /\ Len(added) = 2
  /\ added[2].ID = 7
  /\ out.cmd = "AddTask"
  /\ StoredTasks[2].ID = 2

\* C2: when the write of Add or Complete fails, the tasks stored before the
\* call are still what the backing file holds.
C2_FailedWriteKeepsPriorContents ==
  [][(/\ out'.cmd \in {"add", "complete"}
      /\ Is(out'.err, ErrWrite)
      /\ Len(StoredTasks) >= 1)
     => GetTasks(file') = GetTasks(file)]_vars

\* C3: List on a backing file that is missing or has zero bytes returns the
\* empty collection and no error.
C3_MissingOrEmptyFileIsEmptyStore ==
  (~file.exists \/ Len(file.data) = 0) =>
    /\ GetTasks(file) = [err |-> ErrNone, tasks |-> <<>>]
    /\ out.cmd = "list" => (out.err = ErrNone /\ out.listed = <<>>)

C3_Witness ==
  /\ file.exists
  /\ Len(file.data) = 0
  /\ out.cmd = "list"
  /\ out.msg = MsgNoTasks

\* What json.Unmarshal accepts for a []Task: null, or an array whose
\* elements are objects or null.
RECURSIVE Elements(_)
Elements(s) ==
  s = <<>> \/ (Head(s).tok \in {"object", "null"} /\ Elements(Tail(s)))

ValidTasksJSON(data) ==
  \/ data = <<NullTok>>
  \/ /\ Len(data) >= 2
     /\ Head(data) = LBracket
     /\ data[Len(data)] = RBracket
     /\ Elements(SubSeq(data, 2, Len(data) - 1))

\* C4: List on a non-empty backing file that is not valid JSON for a task
\* array fails with the parse error and returns no tasks.
C4_CorruptFileIsReported ==
  (file.exists /\ Len(file.data) > 0 /\ ~ValidTasksJSON(file.data)) =>
    /\ Is(GetTasks(file).err, ErrParse)
    /\ out.cmd = "list" =>
         (Is(out.err, ErrParse) /\ out.listed = <<>> /\ out.msg = "")

C4_Witness ==
  /\ file = FileOf(<<LBracket>>)
  /\ out.cmd = "list"
  /\ Is(out.err, ErrParse)

\* C5: Complete(id) with an id no stored task has (below 1 or above the
\* number of stored tasks included) fails with not-found and leaves the
\* backing file as it was.
C5_CompleteUnknownIdNotFound ==
  \A a \in AnyIdArgs :
    (~a.err /\ Loadable /\ ~HasID(a.n)) =>
      \A r \in completeTask(file, a, clock) :
        r.out.err = <<ErrNotFound>> /\ r.file = file

C5_Witness ==
  /\ out.cmd = "complete"
  /\ out.err = <<ErrNotFound>>
  /\ Len(StoredTasks) = 2
  /\ out.arg.n > 2

\* C6: Complete(id) on a task that is already completed changes nothing in
\* the backing file, returns no error and prints the already-completed
\* warning, which is not the success message.
C6_CompleteCompletedIsNoOp ==
  \A a \in AnyIdArgs :
    (/\ ~a.err
     /\ Loadable
     /\ \E k \in 1..Len(StoredTasks) :
          StoredTasks[k].ID = a.n /\ StoredTasks[k].Status = StatusCompleted)
    => /\ completeTask(file, a, clock)
            = {[file |-> file,
                out |-> Report("complete", a, ErrNone, MsgAlready, <<>>)]}
       /\ MsgAlready # MsgCompleted

C6_Witness ==
  /\ out.cmd = "complete"
  /\ out.msg = MsgAlready
  /\ out.err = ErrNone
  /\ StoredTasks[out.arg.n].CompletedAt # NilTime
  /\ clock > StoredTasks[out.arg.n].CompletedAt[1]

\* C7: every stored task has completedAt set exactly when its status is
\* completed, and the task a successful Complete acted on has both.
C7_CompletedAtIffCompleted ==
  /\ \A k \in 1..Len(StoredTasks) :
       (StoredTasks[k].CompletedAt # NilTime)
         <=> (StoredTasks[k].Status = StatusCompleted)
  /\ (out.cmd = "complete" /\ out.msg = MsgCompleted) =>
       /\ StoredTasks[out.arg.n].Status = StatusCompleted
       /\ StoredTasks[out.arg.n].CompletedAt # NilTime
       /\ StoredTasks[out.arg.n].CompletedAt[1] <= clock

C7_Witness ==
  /\ out.cmd = "complete"
  /\ out.msg = MsgCompleted
  /\ Len(StoredTasks) = 2
  /\ \E k \in 1..2 : StoredTasks[k].Status = StatusPending

\* C8: a collection saved with SaveTasks and read back with GetTasks is the
\* same sequence of tasks, field by field, absent optional fields absent.
C8_SaveThenLoadIsIdentity ==
  (out.cmd = "GetTasks" /\ mem.durable) =>
    (out.err = ErrNone /\ out.listed = mem.tasks)

C8_Witness ==
  /\ out.cmd = "GetTasks"
  /\ mem.durable
  /\ Len(mem.tasks) = 2
  /\ mem.tasks[1].DueDate = NilTime
  /\ mem.tasks[1].CompletedAt = NilTime
  /\ mem.tasks[2].DueDate # NilTime
  /\ mem.tasks[2].Description = <<"\"", "\\">>
  /\ out.listed = mem.tasks

\* C9: Add with an empty description fails with the validation error
\* whatever the backing file holds, and leaves the file as it was.
C9_EmptyDescriptionRejected ==
  \A pflag \in PriorityFlags, dflag \in DueFlags :
    \A r \in addTask(file, <<>>, pflag, dflag, clock) :
      /\ r.out.err = <<ErrEmptyDescription>>
      /\ r.file = file
      /\ GetTasks(r.file) = GetTasks(file)

C9_Witness ==
  /\ out.cmd = "add"
  /\ out.err = <<ErrEmptyDescription>>
  /\ Len(StoredTasks) >= 1

\* C10 as stated: with no status filter List returns the stored tasks of
\* every status (all of them, or all of the priority asked for).
C10_AbsentFilterIsNoRestriction ==
  (out.cmd = "list" /\ out.err = ErrNone /\ out.arg.status = "") =>
    LET ofPriority(t) ==
          out.arg.priority = "" \/ t.Priority = out.arg.priority
    IN out.listed = SelectSeq(StoredTasks, ofPriority)

\* C10 amended: an absent priority filter is no restriction; an absent
\* status filter is no restriction only with --all, and without --all it
\* leaves the completed tasks out.
C10_AbsentStatusHidesCompleted ==
  (out.cmd = "list" /\ out.err = ErrNone) =>
    LET wanted(t) ==
          /\ out.arg.status # "" => t.Status = out.arg.status
          /\ (out.arg.status = "" /\ ~out.arg.all)
               => t.Status # StatusCompleted
          /\ out.arg.priority # "" => t.Priority = out.arg.priority
    IN out.listed = SelectSeq(StoredTasks, wanted)

C10_Witness ==
  /\ out.cmd = "list"
  /\ out.arg = [status |-> "", priority |-> "", all |-> FALSE]
  /\ Len(StoredTasks) = 2
  /\ StoredTasks[1].Status = StatusCompleted
  /\ out.listed = <<StoredTasks[2]>>

\* C11: while every Add and Complete so far succeeded, list --status
\* completed returns exactly the tasks a Complete succeeded on and list
\* --status pending exactly the other tasks, each in insertion order (the
\* k-th task added has id k); the two lists share no task and together are
\* the whole store.
C11_StatusListsPartitionStore ==
  hist.ok =>
    LET completed(t) == t.ID \in hist.done
        remaining(t) == t.ID \notin hist.done
    IN /\ Len(StoredTasks) = hist.adds
       /\ \A k \in 1..Len(StoredTasks) : StoredTasks[k].ID = k
       /\ hist.done \subseteq 1..hist.adds
       /\ \A showAll \in BOOLEAN :
            LET c == listTasks(file, StatusCompleted, "", showAll)
                p == listTasks(file, StatusPending, "", showAll)
            IN /\ c.err = ErrNone
               /\ p.err = ErrNone
               /\ c.listed = SelectSeq(StoredTasks, completed)
               /\ p.listed = SelectSeq(StoredTasks, remaining)
               /\ \A i \in 1..Len(c.listed), j \in 1..Len(p.listed) :
                    c.listed[i] # p.listed[j]
               /\ Len(c.listed) + Len(p.listed) = Len(StoredTasks)

C11_Witness ==
  /\ hist = [ok |-> TRUE, adds |-> 2, done |-> {2}]
  /\ out.cmd = "list"
  /\ out.arg.status = StatusCompleted
  /\ out.listed = <<StoredTasks[2]>>
  /\ listTasks(file, StatusPending, "", FALSE).listed = <<StoredTasks[1]>>

\* C12: in every step of a run of sequential invocations, a stored task
\* changes status only from pending to completed, getting its completedAt
\* then; a task stored as completed is stored as completed, with the same
\* completedAt, after the step.  A task leaves the store only when a write
\* of the file fails.
C12_CompletedIsTerminal ==
  [][LET before == StoredTasks
         after == GetTasks(file').tasks
     IN \A k \in 1..Len(before) :
          /\ k <= Len(after) \/ Is(out'.err, ErrWrite)
          /\ k <= Len(after) =>
               /\ after[k].ID = before[k].ID
               /\ after[k].Status # before[k].Status =>
                    /\ before[k].Status = StatusPending
                    /\ after[k].Status = StatusCompleted
                    /\ before[k].CompletedAt = NilTime
                    /\ after[k].CompletedAt = Ptr(clock)
                    /\ out'.cmd = "complete"
               /\ before[k].Status = StatusCompleted =>
                    /\ after[k].Status = StatusCompleted
                    /\ after[k].CompletedAt = before[k].CompletedAt]_vars

C12_Witness ==
  /\ Len(StoredTasks) = 2
  /\ out.cmd = "add"
  /\ out.err = ErrNone
  /\ StoredTasks[1].Status = StatusCompleted
  /\ StoredTasks[1].CompletedAt = Ptr(0)
  /\ StoredTasks[2].CreatedAt = 1

\* The task a successful Add appended to the file f.
Appended(f) == GetTasks(f).tasks[Len(GetTasks(f).tasks)]

\* C13: every task the add command stored has a priority among low, medium
\* and high, and an Add given no --priority stores medium.
C13_PersistedPriorityIsValid ==
  /\ \A k \in 1..Len(StoredTasks) :
       StoredTasks[k].Priority \in {PriorityLow, PriorityMedium, PriorityHigh}
  /\ \A desc \in Descriptions, dflag \in DueFlags :
       \A r \in addTask(file, desc, <<>>, dflag, clock) :
         r.out.err = ErrNone => Appended(r.file).Priority = PriorityMedium

\* C14: in every store, a successful Add appends one task: pending, without
\* completedAt, created at the time of the call, with the description, the
\* priority and the due date given (no due date when none was given) and
\* with the next id; on an empty store that id is 1 and List with no filter
\* then returns exactly that task.
C14_AddStoresTheTaskGiven ==
  \A desc \in Descriptions, pflag \in PriorityFlags, dflag \in DueFlags :
    \A r \in addTask(file, desc, pflag, dflag, clock) :
      r.out.err = ErrNone =>
        LET t == Appended(r.file)
        IN /\ GetTasks(r.file).err = ErrNone
           /\ GetTasks(r.file).tasks = Append(StoredTasks, t)
           /\ t.Status = StatusPending
           /\ t.CompletedAt = NilTime
           /\ t.CreatedAt = clock
           /\ t.Description = desc
           /\ pflag # <<>> => t.Priority = pflag[1]
           /\ dflag = "" <=> t.DueDate = NilTime
           /\ dflag = "2006-01-02" => t.DueDate = Ptr(1)
           /\ dflag = "2006-01-03" => t.DueDate = Ptr(2)
           /\ t.ID = Len(StoredTasks) + 1
           /\ Len(StoredTasks) = 0 =>
                /\ t.ID = 1
                /\ \A showAll \in BOOLEAN :
                     LET l == listTasks(r.file, "", "", showAll)
                     IN l.err = ErrNone /\ l.listed = <<t>>

C14_Witness ==
  /\ out.cmd = "add"
  /\ out.msg = MsgAdded
  /\ StoredTasks =
       <<[ID |-> 1, Description |-> <<"a">>, Priority |-> "urgent",
          Status |-> StatusPending, DueDate |-> Ptr(1), CreatedAt |-> 1,
          CompletedAt |-> NilTime, Tags |-> <<>>]>>

\* C15: an invocation of add, list or complete either prints one of its
\* result messages (the already-completed warning included) and exits with
\* status 0, or returns an error and exits with a status other than 0; the
\* validation, not-found, corrupt-store and write errors all exit non-zero.
C15_ExitStatusReportsErrors ==
  out.cmd \in {"add", "list", "complete"} =>
    LET succeeded ==
          out.msg \in {MsgAdded, MsgTable, MsgNoTasks, MsgNoMatch,
                       MsgCompleted, MsgAlready}
        reported ==
          \E e \in {ErrEmptyDescription, ErrDueDate, ErrInvalidID,
                     ErrNotFound, ErrParse, ErrMkdir, ErrWrite, ErrPanic} :
            Is(out.err, e)
    IN /\ succeeded # reported
       /\ succeeded => ExitStatus(out.err) = 0
       /\ reported => ExitStatus(out.err) # 0 /\ out.msg = ""

C15_Witness ==
  /\ out.cmd = "add"
  /\ Is(out.err, ErrWrite)
  /\ ExitStatus(out.err) = 1
  /\ \E a \in IdArgs :
       \A r \in completeTask(file, a, clock) :
         r.out.msg = MsgAlready /\ ExitStatus(r.out.err) = 0

\* C16: with a clock that never goes back, every stored task that has a
\* completedAt has createdAt <= completedAt (and both are no later than
\* now), and no step changes the createdAt of a task that stays stored.
C16_CreatedBeforeCompleted ==
  /\ [](\A k \in 1..Len(StoredTasks) :
          /\ StoredTasks[k].CreatedAt <= clock
          /\ StoredTasks[k].CompletedAt # NilTime =>
               /\ StoredTasks[k].CreatedAt <= StoredTasks[k].CompletedAt[1]
               /\ StoredTasks[k].CompletedAt[1] <= clock)
  /\ [][/\ clock' >= clock
        /\ LET before == StoredTasks
               after == GetTasks(file').tasks
           IN \A k \in 1..Len(before) :
                k <= Len(after) => after[k].CreatedAt = before[k].CreatedAt]_vars

C16_Witness ==
  /\ out.cmd = "complete"
  /\ out.msg = MsgCompleted
  /\ clock = 1
  /\ Len(StoredTasks) = 2
  /\ StoredTasks[1].CreatedAt = 0
  /\ StoredTasks[1].CompletedAt = Ptr(1)
  /\ StoredTasks[2].CreatedAt = 1

\* C17: in every store, Add with a --due value that is given and is not a
\* YYYY-MM-DD date returns a validation error (the due-date error, or the
\* empty-description error when the description is empty too) and leaves
\* the backing file as it was: no task is added.
C17_BadDueDateRejected ==
  \A desc \in Descriptions, pflag \in PriorityFlags :
    \A dflag \in DueFlags \ {"", "2006-01-02", "2006-01-03"} :
      \A r \in addTask(file, desc, pflag, dflag, clock) :
        /\ r.out.err = IF desc = <<>> THEN <<ErrEmptyDescription>>
                       ELSE <<ErrDueDate>>
        /\ r.out.msg = ""
        /\ ExitStatus(r.out.err) # 0
        /\ r.file = file
        /\ GetTasks(r.file) = GetTasks(file)

C17_Witness ==
  /\ out.cmd = "add"
  /\ out.err = <<ErrDueDate>>
  /\ Len(StoredTasks) >= 1

\* C18: IsOverdue answers true exactly when the task has a due date, its
\* status is not completed and the time of the call is after the due date:
\* never for a task without a due date or a completed task, and always for
\* a pending task whose due date has passed.
C18_OverdueExactly ==
  out.cmd = "IsOverdue" =>
    LET t == mem.tasks[1]
    IN /\ out.arg.overdue <=>
            /\ t.DueDate # NilTime
            /\ t.Status # StatusCompleted
            /\ t.DueDate[1] < out.arg.now
       /\ (t.DueDate = NilTime \/ t.Status = StatusCompleted)
            => ~out.arg.overdue
       /\ (t.Status = StatusPending /\ t.DueDate # NilTime
             /\ t.DueDate[1] < out.arg.now) => out.arg.overdue

C18_Witness ==
  /\ out.cmd = "IsOverdue"
  /\ out.arg.overdue
  /\ mem.tasks[1].Status = StatusPending
  /\ mem.tasks[1].DueDate = Ptr(0)
  /\ out.arg.now = 1

\* C19: in every store, a Complete(id) that succeeds on a pending task
\* leaves a file with the same tasks in the same order, except that the
\* task whose id is id has status completed and completedAt = now; its
\* other fields and every other task are as before.
C19_CompleteChangesOnlyTarget ==
  \A a \in AnyIdArgs :
    \A r \in completeTask(file, a, clock) :
      r.out.msg = MsgCompleted =>
        LET before == StoredTasks
            after == GetTasks(r.file).tasks
        IN /\ GetTasks(r.file).err = ErrNone
           /\ Len(after) = Len(before)
           /\ \E k \in 1..Len(before) :
                before[k].ID = a.n /\ before[k].Status = StatusPending
           /\ \A k \in 1..Len(before) :
                after[k] = IF before[k].ID = a.n
                           THEN [before[k] EXCEPT
                                   !.Status = StatusCompleted,
                                   !.CompletedAt = Ptr(clock)]
                           ELSE before[k]

C19_Witness ==
  /\ out.cmd = "complete"
  /\ out.msg = MsgCompleted
  /\ Len(StoredTasks) = 2
  /\ StoredTasks[1].Status = StatusCompleted
  /\ StoredTasks[1].DueDate = Ptr(1)
  /\ StoredTasks[1].CreatedAt = 0
  /\ StoredTasks[1].CompletedAt = Ptr(1)
  /\ StoredTasks[2].Status = StatusPending

\* Process p has saved its slice and reported success.
Wrote(p) ==
  procs[p].pc = "done" /\ procs[p].out.msg \in {MsgAdded, MsgCompleted}

\* The task process p added or completed, as p saved it.
Written(p) ==
  IF procs[p].cmd = "add" THEN procs[p].tasks[Len(procs[p].tasks)]
  ELSE procs[p].tasks[procs[p].id]

\* The file holds p's update: the task p added (completed since, or not),
\* or the task p completed, completed as p saved it.
Kept(p) ==
  \E k \in 1..Len(StoredTasks) :
    IF procs[p].cmd = "add"
    THEN [StoredTasks[k] EXCEPT !.Status = StatusPending,
                                !.CompletedAt = NilTime] = Written(p)
    ELSE StoredTasks[k] = Written(p)

\* Neither process ran wholly before the other.
Overlapped(p, q) == p \in procs[q].racing \/ q \in procs[p].racing

\* C20: when both processes have saved and reported success, the file
\* (unless it no longer parses) holds exactly the slice one of them saved:
\* the last writer wins.  The other's task is then in the file when the two
\* ran one after the other, and when their runs overlapped it is not (unless
\* both made the very same change): its update is lost without any error.
C20_LastWriterWins ==
  (\A p \in Procs : Wrote(p)) =>
    \/ GetTasks(file).err # ErrNone
    \/ \E w \in Procs :
         \A o \in Procs \ {w} :
           /\ StoredTasks = procs[w].tasks
           /\ ~Overlapped(w, o) => Kept(o)
           /\ Overlapped(w, o) => (~Kept(o) \/ Written(o) = Written(w))

\* Complete(1) and Add overlap, both report success, and the file holds the
\* slice of the Add, in which task 1 is pending again.
C20_Witness ==
  /\ Overlapped(1, 2)
  /\ procs[1].cmd = "complete"
  /\ procs[1].out.msg = MsgCompleted
  /\ procs[1].tasks[1].Status = StatusCompleted
  /\ procs[2].cmd = "add"
  /\ procs[2].out.msg = MsgAdded
  /\ StoredTasks = procs[2].tasks
  /\ Len(StoredTasks) = 2
  /\ StoredTasks[1].Status = StatusPending
  /\ StoredTasks[1].CompletedAt = NilTime

(***************************************************************************)
(* C21: every row that `list` prints, under any --status / --priority /    *)
(* --all combination, carries in its ID column the stored id of the task   *)
(* on that row, and `complete <printed id>` completes that task: where it  *)
(* succeeds, the stored task it marks completed is the one shown.          *)
(***************************************************************************)
C21_PrintedIdIsStoredId ==
  /\ out.cmd = "list" =>
       \A i \in 1..Len(out.rows) : out.rows[i].id = out.listed[i].ID
  /\ \A status \in StatusFilters, priority \in PriorityFilters,
        showAll \in BOOLEAN :
       LET l == listTasks(file, status, priority, showAll)
       IN \A i \in 1..Len(l.rows) :
            /\ l.rows[i].id = l.listed[i].ID
            /\ \A r \in completeTask(file, [err |-> FALSE, n |-> l.rows[i].id],
                                      clock) :
                 r.out.msg = MsgCompleted =>
                   LET after == GetTasks(r.file).tasks
                   IN \E k \in 1..Len(after) :
                        /\ StoredTasks[k] = l.listed[i]
                        /\ after[k] = Complete(l.listed[i], clock)

\* The backing file holds bytes that are not the JSON of a task array.
CorruptStore ==
  file.exists /\ Len(file.data) > 0 /\ ~ValidTasksJSON(file.data)

(***************************************************************************)
(* C22: while the backing file holds invalid JSON, every `add` and every   *)
(* `complete` fails and leaves the file exactly as it was; with arguments  *)
(* that pass the command's own validation the error is the load (parse)    *)
(* error, as it is for Storage.AddTask called directly.  No step of a run  *)
(* replaces a corrupt file.                                                *)
(***************************************************************************)
C22_CorruptStoreIsNeverRewritten ==
  /\ [](CorruptStore =>
         /\ \A desc \in Descriptions, pflag \in PriorityFlags,
               dflag \in DueFlags :
              \A r \in addTask(file, desc, pflag, dflag, clock) :
                /\ r.file = file
                /\ r.out.err # ErrNone /\ r.out.msg = ""
                /\ ExitStatus(r.out.err) # 0
                /\ (desc # <<>> /\ (dflag = "" \/ ~ParseDate(dflag).err)) =>
                     (Is(r.out.err, ErrLoadExisting) /\ Is(r.out.err, ErrParse))
         /\ \A r \in AddTask(file, ZeroTask) :
              r.file = file /\ Is(r.err, ErrParse)
         /\ \A a \in AnyIdArgs :
              \A r \in completeTask(file, a, clock) :
                /\ r.file = file
                /\ r.out.err # ErrNone /\ r.out.msg = ""
                /\ ExitStatus(r.out.err) # 0
                /\ ~a.err => (Is(r.out.err, ErrLoad) /\ Is(r.out.err, ErrParse)))
  /\ [][CorruptStore => file' = file]_vars

\* `add` has just failed with the parse error on a corrupt file, which is
\* still there, and `complete 1` fails on it in the same way.
C22_Witness ==
  /\ CorruptStore
  /\ file = FileOf(<<LBracket>>)
  /\ out.cmd = "add"
  /\ Is(out.err, ErrLoadExisting) /\ Is(out.err, ErrParse)
  /\ \A r \in completeTask(file, [err |-> FALSE, n |-> 1], clock) :
       r.file = file /\ Is(r.out.err, ErrParse)

\* The ids of a slice are 1..Len, the task at position k having id k.
IdsByPosition(tasks) == \A k \in 1..Len(tasks) : tasks[k].ID = k

(***************************************************************************)
(* C23: however concurrent `add` and `complete` runs interleave on a store *)
(* whose ids are 1..n in order, every state of the backing file that       *)
(* parses (a save that has been written completely; the zero-byte file     *)
(* between an open and its write is the empty collection) holds ids 1..m   *)
(* in position order, and so does every slice a process loads or saves.    *)
(***************************************************************************)
C23_IdsStayPositional ==
  /\ GetTasks(file).err = ErrNone => IdsByPosition(StoredTasks)
  /\ \A p \in Procs :
       IdsByPosition(procs[p].seen) /\ IdsByPosition(procs[p].tasks)

\* Two overlapping adds on a one-task store have both saved: each gave its
\* task id 2, and the file holds ids 1, 2, the second add's slice.
C23_Witness ==
  /\ Overlapped(1, 2)
  /\ \A p \in Procs :
       /\ procs[p].cmd = "add"
       /\ procs[p].out.msg = MsgAdded
       /\ Len(procs[p].tasks) = 2
       /\ procs[p].tasks[2].ID = 2
  /\ GetTasks(file).err = ErrNone
  /\ StoredTasks = procs[2].tasks
  /\ procs[1].tasks # procs[2].tasks

\* Process p has loaded the backing file.
HasLoaded(p) == procs[p].pc # "idle"

(***************************************************************************)
(* C24: a process that loads the backing file while another one is between *)
(* its own load and the end of its save gets either the collection the     *)
(* other one loaded (the old one) or the collection the other one saves    *)
(* (the new one), and never the empty collection of a zero-byte file in    *)
(* place of a store that holds tasks.                                      *)
(***************************************************************************)
C24_LoadSeesOldOrNew ==
  \A p \in Procs :
    HasLoaded(p) =>
      \A q \in procs[p].racing :
        /\ procs[p].seen \in {procs[q].seen, procs[q].tasks}
        /\ procs[q].seen # <<>> => procs[p].seen # <<>>

====
